---- MODULE Spec2Model ----
(***************************************************************************)
(* Model of elasticsearch.client.cluster.ClusterClient: ten methods, each  *)
(* of which builds a path, issues one transport.perform_request and        *)
(* returns the body of the response.                                       *)
(*                                                                         *)
(* Python strings are sequences of tokens: "/" is the path separator and   *)
(* every other token is a run of characters without a slash, so that       *)
(* '/_cluster/stats' is <<"/", "_cluster", "/", "stats">> and '' is <<>>.  *)
(* None is the one-token sequence <<"<None>">>.  Request bodies, response  *)
(* bodies and exceptions are opaque and are TLA+ strings.                  *)
(***************************************************************************)
EXTENDS Integers, Sequences, FiniteSets, TLC

VARIABLES calls,   \* requests recorded by the transport, oldest first
          self,    \* the attributes of the ClusterClient instance
          ret,     \* what the last call gave its caller: a value or an exception
          last,    \* arguments and transport outcome of the last call
          ops      \* names of the operations called so far, oldest first

vars == <<calls, self, ret, last, ops>>

MaxCalls == 2

None == <<"<None>">>
EmptyStr == <<>>
Slash == <<"/">>

\* values the model passes for each argument: None, '' and one identifier
Indexes == {None, EmptyStr, <<"i1">>}
Metrics == {None, EmptyStr, <<"m1">>}
NodeIds == {None, EmptyStr, <<"n1">>}
MetricFamilies == {None, EmptyStr, <<"f1">>}
Bodies == {"None", "{body}"}
Params == {{}, {<<"flat_settings", "true">>}}
Unpassed == "<unpassed>"

\* what perform_request can do: return (status, data) or raise
Outcomes == {[raised |-> FALSE, status |-> 200, data |-> "d1"],
             [raised |-> FALSE, status |-> 404, data |-> "d1"],
             [raised |-> TRUE, status |-> 0, data |-> "ConnectionError"]}

\* Python truth value of None or a string
Truthy(v) == v # None /\ v # EmptyStr

SKIP_IN_PATH == {None, EmptyStr}

RECURSIVE Join(_, _)
Join(parts, sep) ==
    IF parts = <<>> THEN <<>>
    ELSE IF Len(parts) = 1 THEN Head(parts)
    ELSE Head(parts) \o sep \o Join(Tail(parts), sep)

\* '/' + '/'.join(p for p in parts if p not in SKIP_IN_PATH)
_make_path(parts) ==
    Slash \o Join(SelectSeq(parts, LAMBDA p : p \notin SKIP_IN_PATH), Slash)

\* the transport records the request, then returns or raises
perform_request(method, path, params, body, out) ==
    calls' = Append(calls, [method |-> method, path |-> path,
                            params |-> params, body |-> body])

\* _, data = self.transport.perform_request(...); return data
Invoke(method, path, params, body, out) ==
    /\ perform_request(method, path, params, body, out)
    /\ ret' = IF out.raised THEN [kind |-> "raise", val |-> out.data]
              ELSE [kind |-> "return", val |-> out.data]
    /\ self' = self

\* health, branching on the status code
health_by_status(index, params, out) ==
    /\ perform_request("GET", _make_path(<<(<<"_cluster">>), <<"health">>, index>>),
                       params, Unpassed, out)
    /\ ret' = IF out.raised THEN [kind |-> "raise", val |-> out.data]
              ELSE IF out.status >= 400 THEN [kind |-> "return", val |-> "None"]
              ELSE [kind |-> "return", val |-> out.data]
    /\ self' = self

health(index, params, out) ==
    Invoke("GET", _make_path(<<(<<"_cluster">>), <<"health">>, index>>),
           params, Unpassed, out)

pending_tasks(params, out) ==
    Invoke("GET", <<"/", "_cluster", "/", "pending_tasks">>, params, Unpassed, out)

\* state, without the default of the metric
state_no_default(metric, index, params, out) ==
    Invoke("GET", _make_path(<<(<<"_cluster", "/", "state">>), metric, index>>),
           params, Unpassed, out)

\* state, with "if index:" for "if index and not metric:"
state_override(metric, index, params, out) ==
    LET metric1 == IF Truthy(index) THEN <<"_all">> ELSE metric
    IN Invoke("GET", _make_path(<<(<<"_cluster", "/", "state">>), metric1, index>>),
              params, Unpassed, out)

state(metric, index, params, out) ==
    LET metric1 == IF Truthy(index) /\ ~Truthy(metric) THEN <<"_all">> ELSE metric
    IN Invoke("GET", _make_path(<<(<<"_cluster", "/", "state">>), metric1, index>>),
              params, Unpassed, out)

\* stats, always on the cluster-wide path
stats_cluster_only(node_id, params, out) ==
    Invoke("GET", <<"/", "_cluster", "/", "stats">>, params, Unpassed, out)

stats(node_id, params, out) ==
    LET url == IF Truthy(node_id)
               THEN _make_path(<<(<<"_cluster", "/", "stats", "/", "nodes">>), node_id>>)
               ELSE <<"/", "_cluster", "/", "stats">>
    IN Invoke("GET", url, params, Unpassed, out)

\* reroute, forgetting body=body
reroute_no_body(body, params, out) ==
    Invoke("POST", <<"/", "_cluster", "/", "reroute">>, params, Unpassed, out)

reroute(body, params, out) ==
    Invoke("POST", <<"/", "_cluster", "/", "reroute">>, params, body, out)

\* get_settings, trying once more when the transport raises
get_settings_retry(params, out) ==
    LET req == [method |-> "GET", path |-> <<"/", "_cluster", "/", "settings">>,
                params |-> params, body |-> Unpassed]
    IN /\ calls' = IF out.raised THEN Append(Append(calls, req), req)
                   ELSE Append(calls, req)
       /\ ret' = IF out.raised THEN [kind |-> "raise", val |-> out.data]
                 ELSE [kind |-> "return", val |-> out.data]
       /\ self' = self

get_settings(params, out) ==
    Invoke("GET", <<"/", "_cluster", "/", "settings">>, params, Unpassed, out)

\* put_settings, sent as POST
put_settings_post(body, params, out) ==
    Invoke("POST", <<"/", "_cluster", "/", "settings">>, params, body, out)

put_settings(body, params, out) ==
    Invoke("PUT", <<"/", "_cluster", "/", "settings">>, params, body, out)

\* node_stats, without the default of the metric family
node_stats_no_default(node_id, metric_family, metric, params, out) ==
    Invoke("GET",
           _make_path(<<(<<"_nodes">>), node_id, <<"stats">>, metric_family, metric>>),
           params, Unpassed, out)

node_stats(node_id, metric_family, metric, params, out) ==
    LET metric_family1 == IF Truthy(metric) /\ ~Truthy(metric_family)
                          THEN <<"all">> ELSE metric_family
    IN Invoke("GET",
              _make_path(<<(<<"_nodes">>), node_id, <<"stats">>, metric_family1, metric>>),
              params, Unpassed, out)

\* node_info, without the default of the node identifier
node_info_no_default(node_id, metric, params, out) ==
    Invoke("GET", _make_path(<<(<<"_nodes">>), node_id, metric>>),
           params, Unpassed, out)

\* node_info, with "if not node_id:" for "if not node_id and metric:"
node_info_always_all(node_id, metric, params, out) ==
    LET node_id1 == IF ~Truthy(node_id) THEN <<"_all">> ELSE node_id
    IN Invoke("GET", _make_path(<<(<<"_nodes">>), node_id1, metric>>),
              params, Unpassed, out)

node_info(node_id, metric, params, out) ==
    LET node_id1 == IF ~Truthy(node_id) /\ Truthy(metric) THEN <<"_all">> ELSE node_id
    IN Invoke("GET", _make_path(<<(<<"_nodes">>), node_id1, metric>>),
              params, Unpassed, out)

node_shutdown(node_id, params, out) ==
    Invoke("POST",
           _make_path(<<(<<"_cluster">>), <<"nodes">>, node_id, <<"_shutdown">>>>),
           params, Unpassed, out)

\* bookkeeping of a call: who was called, with what, and what the transport did
Note(op, index, metric, node_id, metric_family, body, params, out) ==
    /\ last' = [op |-> op, index |-> index, metric |-> metric, node_id |-> node_id,
                metric_family |-> metric_family, body |-> body, params |-> params,
                out |-> out]
    /\ ops' = Append(ops, op)

CallHealth ==
    /\ Len(ops) < MaxCalls
    /\ \E index \in Indexes, params \in Params, out \in Outcomes :
        /\ health(index, params, out)
        /\ Note("health", index, None, None, None, "None", params, out)

CallPendingTasks ==
    /\ Len(ops) < MaxCalls
    /\ \E params \in Params, out \in Outcomes :
        /\ pending_tasks(params, out)
        /\ Note("pending_tasks", None, None, None, None, "None", params, out)

CallState ==
    /\ Len(ops) < MaxCalls
    /\ \E metric \in Metrics, index \in Indexes, params \in Params, out \in Outcomes :
        /\ state(metric, index, params, out)
        /\ Note("state", index, metric, None, None, "None", params, out)

CallStats ==
    /\ Len(ops) < MaxCalls
    /\ \E node_id \in NodeIds, params \in Params, out \in Outcomes :
        /\ stats(node_id, params, out)
        /\ Note("stats", None, None, node_id, None, "None", params, out)

CallReroute ==
    /\ Len(ops) < MaxCalls
    /\ \E body \in Bodies, params \in Params, out \in Outcomes :
        /\ reroute(body, params, out)
        /\ Note("reroute", None, None, None, None, body, params, out)

CallGetSettings ==
    /\ Len(ops) < MaxCalls
    /\ \E params \in Params, out \in Outcomes :
        /\ get_settings(params, out)
        /\ Note("get_settings", None, None, None, None, "None", params, out)

CallPutSettings ==
    /\ Len(ops) < MaxCalls
    /\ \E body \in Bodies, params \in Params, out \in Outcomes :
        /\ put_settings(body, params, out)
        /\ Note("put_settings", None, None, None, None, body, params, out)

CallNodeStats ==
    /\ Len(ops) < MaxCalls
    /\ \E node_id \in NodeIds, metric_family \in MetricFamilies, metric \in Metrics,
          params \in Params, out \in Outcomes :
        /\ node_stats(node_id, metric_family, metric, params, out)
        /\ Note("node_stats", None, metric, node_id, metric_family, "None", params, out)

CallNodeInfo ==
    /\ Len(ops) < MaxCalls
    /\ \E node_id \in NodeIds, metric \in Metrics, params \in Params, out \in Outcomes :
        /\ node_info(node_id, metric, params, out)
        /\ Note("node_info", None, metric, node_id, None, "None", params, out)

CallNodeShutdown ==
    /\ Len(ops) < MaxCalls
    /\ \E node_id \in NodeIds, params \in Params, out \in Outcomes :
        /\ node_shutdown(node_id, params, out)
        /\ Note("node_shutdown", None, None, node_id, None, "None", params, out)

Init ==
    /\ calls = <<>>
    /\ self = [transport |-> "transport"]
    /\ ret = [kind |-> "none", val |-> "None"]
    /\ last = [op |-> "none", index |-> None, metric |-> None, node_id |-> None,
               metric_family |-> None, body |-> "None", params |-> {},
               out |-> [raised |-> FALSE, status |-> 0, data |-> "None"]]
    /\ ops = <<>>

Next ==
    \/ CallHealth
    \/ CallPendingTasks
    \/ CallState
    \/ CallStats
    \/ CallReroute
    \/ CallGetSettings
    \/ CallPutSettings
    \/ CallNodeStats
    \/ CallNodeInfo
    \/ CallNodeShutdown

Spec == Init /\ [][Next]_vars

(***************************************************************************)
(* Properties                                                              *)
(***************************************************************************)

\* the request the last call handed to the transport
Req == calls[Len(calls)]

Called(op) == Len(calls) > 0 /\ last.op = op

\* '/x' when x is supplied, nothing when it is None or ''
Opt(x) == IF Truthy(x) THEN Slash \o x ELSE <<>>

\* the Method column of the interface table
InterfaceMethod(op) ==
    CASE op \in {"health", "pending_tasks", "state", "stats", "get_settings",
                 "node_stats", "node_info"} -> "GET"
      [] op \in {"reroute", "node_shutdown"} -> "POST"
      [] op = "put_settings" -> "PUT"

\* the path of each operation called without optional arguments
BasePath(op) ==
    CASE op = "health" -> <<"/", "_cluster", "/", "health">>
      [] op = "pending_tasks" -> <<"/", "_cluster", "/", "pending_tasks">>
      [] op = "state" -> <<"/", "_cluster", "/", "state">>
      [] op = "stats" -> <<"/", "_cluster", "/", "stats">>
      [] op = "reroute" -> <<"/", "_cluster", "/", "reroute">>
      [] op = "get_settings" -> <<"/", "_cluster", "/", "settings">>
      [] op = "put_settings" -> <<"/", "_cluster", "/", "settings">>
      [] op = "node_stats" -> <<"/", "_nodes", "/", "stats">>
      [] op = "node_info" -> <<"/", "_nodes">>
      [] op = "node_shutdown" -> <<"/", "_cluster", "/", "nodes", "/", "_shutdown">>

\* a path starts with a slash, never ends with one and never has two in a row
WellFormed(path) ==
    /\ Len(path) >= 2
    /\ path[1] = "/"
    /\ path[Len(path)] # "/"
    /\ \A k \in 1..(Len(path) - 1) : ~(path[k] = "/" /\ path[k + 1] = "/")

HasToken(path, t) == \E k \in 1..Len(path) : path[k] = t

\* C1: after any sequence of N calls the transport has recorded exactly N
\* requests, the k-th with the method the interface table gives for the k-th
\* operation called, and the client's own attributes are what they were.
C1_OneRequestPerCall ==
    /\ Len(calls) = Len(ops)
    /\ \A k \in 1..Len(ops) : k <= Len(calls) => calls[k].method = InterfaceMethod(ops[k])
    /\ self = [transport |-> "transport"]

C1_Witness ==
    /\ Len(calls) = 2
    /\ ops = <<"put_settings", "node_shutdown">>
    /\ calls[1].method = "PUT"
    /\ calls[2].method = "POST"

\* C2: state with an index and no metric (None or '') requests exactly
\* /_cluster/state/_all/<index>.
C2_StateDefaultsMetric ==
    (Called("state") /\ Truthy(last.index) /\ ~Truthy(last.metric))
        => Req.path = <<"/", "_cluster", "/", "state", "/", "_all", "/">> \o last.index

C2_Witness ==
    /\ Called("state")
    /\ last.index = <<"i1">>
    /\ last.metric = None
    /\ Req.path = <<"/", "_cluster", "/", "state", "/", "_all", "/", "i1">>

\* C3: node_stats with a metric and no metric family requests
\* /_nodes[/<node_id>]/stats/all/<metric>; the metric never directly follows
\* the 'stats' segment.
C3_NodeStatsDefaultsFamily ==
    (Called("node_stats") /\ Truthy(last.metric) /\ ~Truthy(last.metric_family))
        => /\ Req.path = <<"/", "_nodes">> \o Opt(last.node_id)
                           \o <<"/", "stats", "/", "all", "/">> \o last.metric
           /\ \A k \in 1..(Len(Req.path) - 2) :
                  ~(Req.path[k] = "stats" /\ Req.path[k + 1] = "/"
                    /\ <<Req.path[k + 2]>> = last.metric)

C3_Witness ==
    /\ Called("node_stats")
    /\ last.metric = <<"m1">>
    /\ last.metric_family = None
    /\ last.node_id = <<"n1">>
    /\ Req.path = <<"/", "_nodes", "/", "n1", "/", "stats", "/", "all", "/", "m1">>

\* C4: node_info with a metric and no node identifier requests exactly
\* /_nodes/_all/<metric>.
C4_NodeInfoDefaultsNode ==
    (Called("node_info") /\ Truthy(last.metric) /\ ~Truthy(last.node_id))
        => Req.path = <<"/", "_nodes", "/", "_all", "/">> \o last.metric

C4_Witness ==
    /\ Called("node_info")
    /\ last.metric = <<"m1">>
    /\ last.node_id = None
    /\ Req.path = <<"/", "_nodes", "/", "_all", "/", "m1">>

\* C5: stats with a node identifier requests /_cluster/stats/nodes/<node_id>
\* and not the cluster-wide path; with None or '' it requests /_cluster/stats.
C5_StatsRoutesByNode ==
    Called("stats")
        => IF Truthy(last.node_id)
           THEN /\ Req.path = <<"/", "_cluster", "/", "stats", "/", "nodes", "/">>
                                \o last.node_id
                /\ Req.path # <<"/", "_cluster", "/", "stats">>
           ELSE Req.path = <<"/", "_cluster", "/", "stats">>

C5_Witness ==
    /\ Called("stats")
    /\ last.node_id = <<"n1">>
    /\ Req.path = <<"/", "_cluster", "/", "stats", "/", "nodes", "/", "n1">>

\* C6: an operation called with no optional argument requests its base path,
\* which is well formed and holds no '_all' and no 'all'.
C6_BasePaths ==
    (Len(calls) > 0 /\ last.index = None /\ last.metric = None
     /\ last.node_id = None /\ last.metric_family = None)
        => /\ Req.path = BasePath(last.op)
           /\ WellFormed(Req.path)
           /\ ~HasToken(Req.path, "_all")
           /\ ~HasToken(Req.path, "all")

C6_Witness ==
    /\ Called("node_info")
    /\ last.node_id = None
    /\ last.metric = None
    /\ Req.path = <<"/", "_nodes">>

\* C7: when the transport returns (status, body) the caller gets exactly that
\* body, whatever the status.
C7_BodyReturned ==
    (Len(calls) > 0 /\ ~last.out.raised)
        => ret = [kind |-> "return", val |-> last.out.data]

C7_Witness ==
    /\ Called("health")
    /\ ~last.out.raised
    /\ last.out.status = 404
    /\ ret = [kind |-> "return", val |-> "d1"]

\* C8: a call during which the transport raises gives its caller that same
\* exception and no value, and adds exactly one request to the transport's
\* record.
C8_FailurePropagates ==
    [][last'.out.raised
         => /\ ret' = [kind |-> "raise", val |-> last'.out.data]
            /\ Len(calls') = Len(calls) + 1]_vars

C8_Witness ==
    /\ Called("get_settings")
    /\ last.out.raised
    /\ ret = [kind |-> "raise", val |-> "ConnectionError"]
    /\ Len(calls) = 2

\* C9: the transport receives the params the operation received; it receives
\* a body from reroute and put_settings only, and that body is the one
\* supplied.
C9_ParamsAndBodyForwarded ==
    Len(calls) > 0
        => /\ Req.params = last.params
           /\ Req.body = IF last.op \in {"reroute", "put_settings"}
                         THEN last.body ELSE Unpassed

C9_Witness ==
    /\ Called("reroute")
    /\ last.body = "{body}"
    /\ Req.body = "{body}"
    /\ last.params = {<<"flat_settings", "true">>}
    /\ Req.params = {<<"flat_settings", "true">>}

\* C10: unless a default applies (state: index without metric; node_stats:
\* metric without family; node_info: metric without node), the path is made of
\* the fixed segments and the supplied identifiers alone, in the documented
\* order.
C10_NoDefaultUnlessTriggered ==
    /\ (Called("state") /\ ~(Truthy(last.index) /\ ~Truthy(last.metric)))
          => Req.path = <<"/", "_cluster", "/", "state">>
                          \o Opt(last.metric) \o Opt(last.index)
    /\ (Called("node_stats") /\ ~(Truthy(last.metric) /\ ~Truthy(last.metric_family)))
          => Req.path = <<"/", "_nodes">> \o Opt(last.node_id) \o <<"/", "stats">>
                          \o Opt(last.metric_family) \o Opt(last.metric)
    /\ (Called("node_info") /\ ~(Truthy(last.metric) /\ ~Truthy(last.node_id)))
          => Req.path = <<"/", "_nodes">> \o Opt(last.node_id) \o Opt(last.metric)
    /\ Called("health")
          => Req.path = <<"/", "_cluster", "/", "health">> \o Opt(last.index)
    /\ Called("node_shutdown")
          => Req.path = <<"/", "_cluster", "/", "nodes">> \o Opt(last.node_id)
                          \o <<"/", "_shutdown">>

C10_Witness ==
    /\ Called("state")
    /\ last.metric = <<"m1">>
    /\ last.index = <<"i1">>
    /\ Req.path = <<"/", "_cluster", "/", "state", "/", "m1", "/", "i1">>

====
